---- MODULE Spec2Model ----
(***************************************************************************)
(* Model of the marain terminal chat client: the modal client state        *)
(* machine (src/src/app.rs), its key maps (src/src/default_keybinds.rs),    *)
(* the event handler (src/src/update.rs) and the dispatcher loop           *)
(* (src/src/main.rs) fed by the event multiplexer                          *)
(* (src/src/tui_framework.rs).                                             *)
(*                                                                         *)
(* A Rust String is modelled as the sequence of its chars; a char is a     *)
(* one-character TLA+ string.  String::len, split_at and split_off count   *)
(* BYTES, so every char carries its UTF-8 width (len_utf8).  A panic of    *)
(* the code is an explicit outcome (field "panic" of a handler's result):  *)
(* the state is left as it was and the dispatcher stops.  Timestamps       *)
(* (Utc::now) are not modelled.                                            *)
(***************************************************************************)
EXTENDS Integers, Sequences, FiniteSets, TLC

VARIABLES
    app,        \* the App struct (src/src/app.rs:92-105)
    receiver,   \* Tui.receiver: the unbounded event channel, head first
    tui,        \* the Tui fields the dispatcher reads (shared_secret, socket_sender)
    socket_out, \* SocketClient.out_sink: frames queued for the web socket
    pc,         \* position of run(): "run", "exited" or "panicked"; of a caller
                \* of the App's handlers: "call", "returned" or "panicked"
    pre,        \* the App as it was before the handler calls recorded in called
    called,     \* the commands a caller has applied to the App, in order
    client,     \* SocketClient: its work task and in_source, the inbound channel
    ws_source,  \* what the web socket stream will yield to SocketClient::work, head first
    reader,     \* crossterm EventStream: terminal events not read yet, head first
    task,       \* Tui.task, the multiplexer: "none", "running" or "panicked"
    hist        \* history: keys typed, messages the server sent, events run() took

vars == <<app, receiver, tui, socket_out, pc, pre, called,
          client, ws_source, reader, task, hist>>

\* the transport, the terminal and the multiplexer task
io == <<client, ws_source, reader, task, hist>>

(***************************************************************************)
(* Bounds of the model.                                                    *)
(***************************************************************************)
MaxLineLen == 2     \* chars per buffer line that are typed or drawn
MaxLines == 2       \* lines of a buffer drawn as the input of a handler call
MaxPending == 1     \* forwarded events waiting in the channel
MaxStored == 1      \* stored log entries beyond which no inbound event is offered
MaxDebug == 1       \* debug entries held by the ring in the log-ring specification
MaxExcess == 2      \* entries stored beyond LOG_LIMIT in the log-ring specification
MaxTyped == 2       \* keys the user presses in the specifications of the multiplexer
MaxArrived == 2     \* messages the server sends in the specifications of the multiplexer

(***************************************************************************)
(* Option<T>: None is the empty sequence, Some(x) the one-element one.     *)
(***************************************************************************)
None == <<>>
Some(x) == <<x>>
is_some(o) == o # <<>>
unwrap(o) == o[1]

(***************************************************************************)
(* Characters and Rust string primitives.                                  *)
(***************************************************************************)
\* the characters bound to commands in Navigate mode
NavChars == {"i", "q", "r", "t", "m", "d"}
\* "W" stands for a character whose UTF-8 encoding is two bytes (e.g. e-acute)
WideChars == {"W"}
Chars == NavChars \cup WideChars

len_utf8(c) == IF c \in WideChars THEN 2 ELSE 1

\* String::len(): the length in bytes
RECURSIVE len(_)
len(s) == IF s = <<>> THEN 0 ELSE len_utf8(Head(s)) + len(Tail(s))

\* the number of leading chars of s that make up exactly n bytes, or -1 when
\* byte offset n is past the end or inside a char (str::is_char_boundary)
char_index(s, n) ==
    LET ks == {k \in 0..Len(s) : len(SubSeq(s, 1, k)) = n}
    IN IF ks = {} THEN -1 ELSE CHOOSE k \in ks : TRUE

\* str::split_at(mid) / String::split_off(at): panic unless mid is a boundary
split_at(s, mid) ==
    LET k == char_index(s, mid)
    IN IF k < 0
       THEN [panic |-> TRUE, pre |-> <<>>, post |-> <<>>]
       ELSE [panic |-> FALSE, pre |-> SubSeq(s, 1, k), post |-> SubSeq(s, k + 1, Len(s))]

\* s.chars().take(n).collect()
chars_take(s, n) == SubSeq(s, 1, IF n < Len(s) THEN n ELSE Len(s))
\* s.chars().skip(n).collect()
chars_skip(s, n) == SubSeq(s, n + 1, Len(s))

clamp(x, lo, hi) == IF x < lo THEN lo ELSE IF x > hi THEN hi ELSE x
max0(x) == IF x < 0 THEN 0 ELSE x

(***************************************************************************)
(* Modes, commands, key codes, events.                                     *)
(***************************************************************************)
Mode == {"Navigate", "Insert", "InsertCommand", "Disconnected"}
CaretMotion == {"Character", "Line"}

Reset == [name |-> "Reset"]
Quit == [name |-> "Quit"]
Capture(c) == [name |-> "Capture", c |-> c]
Del(offset) == [name |-> "Del", offset |-> offset]
MoveCaret(motion, amount) == [name |-> "MoveCaret", motion |-> motion, amount |-> amount]
Enter(mode) == [name |-> "Enter", mode |-> mode]
SendBuffer == [name |-> "SendBuffer"]
GetServerTime == [name |-> "GetServerTime"]
MoveRooms(target) == [name |-> "MoveRooms", target |-> target]
SendStagedCommand == [name |-> "SendStagedCommand"]
AbortStagedCommand == [name |-> "AbortStagedCommand"]
ToggleDebug == [name |-> "ToggleDebug"]

\* crossterm KeyCode: Char(c) and the named keys
KeyChar(c) == [key |-> "Char", c |-> c]
KeyNamed(k) == [key |-> k, c |-> ""]
NamedKeys == {"Esc", "Enter", "Left", "Right", "Up", "Down", "Backspace", "Delete", "Tab"}
KeyCode == {KeyChar(c) : c \in Chars} \cup {KeyNamed(k) : k \in NamedKeys}

\* tui_framework::Event
EvKey(code) == [type |-> "Key", code |-> code]
EvServerClose == [type |-> "ServerClose"]
EvRecv(data) == [type |-> "Recv", data |-> data]
EvTick == [type |-> "Tick"]
EvRender == [type |-> "Render"]
EvSend(token, username, contents) ==
    [type |-> "Send", token |-> token, username |-> username, contents |-> contents]
EvServerCommand(token, username, body) ==
    [type |-> "ServerCommand", token |-> token, username |-> username, message_body |-> body]

\* marain_api ClientMsgBody
GetTime == [body |-> "GetTime"]
Move(target) == [body |-> "Move", target |-> target]
SendToRoom(contents) == [body |-> "SendToRoom", contents |-> contents]

\* chat_log::Log (without its timestamp)
Log_new(uname, message) == [from |-> uname, msg |-> message, debug |-> FALSE]
as_debug(l) == [l EXCEPT !.debug = TRUE]
Log_new_debug(data) == as_debug(Log_new("DEBUG", data))
should_render(l, show_debug) == (~l.debug) \/ show_debug

(***************************************************************************)
(* Results of a handler: the new App, the events it sent on command_sink,  *)
(* and whether it panicked.                                                *)
(***************************************************************************)
Ok(a) == [app |-> a, sent |-> <<>>, panic |-> FALSE]
OkSent(a, evs) == [app |-> a, sent |-> evs, panic |-> FALSE]
Panic(a) == [app |-> a, sent |-> <<>>, panic |-> TRUE]

(***************************************************************************)
(* App (src/src/app.rs).                                                   *)
(***************************************************************************)
LOG_LIMIT == 100

EmptyBuffer == << <<>> >>

\* App::new
new(username) ==
    [should_quit |-> FALSE, show_debug |-> FALSE, buffer |-> EmptyBuffer,
     caret_offset |-> <<1, 1>>, logs |-> <<>>, mode |-> "Navigate",
     staged_command |-> None, username |-> username, token |-> None,
     shared_secret |-> None, command_sink |-> None]

\* the index expression  row.checked_sub(1).unwrap_or(0)  (0-based)
row_index(row) == IF row >= 1 THEN row - 1 ELSE 0

\* set_caret_2d clamping the row as it clamps the column, to one past the end
set_caret_2d_row_past_end(a, row, col) ==
    LET n == Len(a.buffer)
    IN IF n = 0
       THEN Panic(a)
       ELSE LET r == clamp(row, 1, n + 1)
                line == a.buffer[(row_index(row) % n) + 1]
                c == clamp(col, 1, len(line) + 1)
            IN Ok([a EXCEPT !.caret_offset = <<r, c>>])

\* App::set_caret_2d
set_caret_2d(a, row, col) ==
    LET n == Len(a.buffer)
    IN IF n = 0
       THEN Panic(a)
       ELSE LET r == clamp(row, 1, n)
                line == a.buffer[(row_index(row) % n) + 1]
                c == clamp(col, 1, len(line) + 1)
            IN Ok([a EXCEPT !.caret_offset = <<r, c>>])

\* App::render_buf
RECURSIVE concat(_)
concat(lines) == IF lines = <<>> THEN <<>> ELSE Head(lines) \o concat(Tail(lines))
render_buf(a) == concat(a.buffer)

\* App::split_current_at_caret
split_current_at_caret(a) ==
    LET row == a.caret_offset[1]
        col == a.caret_offset[2]
        i == row_index(row) + 1
    IN IF i > Len(a.buffer)
       THEN [panic |-> TRUE, pre |-> <<>>, post |-> <<>>]
       ELSE LET buf_line == a.buffer[i]
            IN IF len(buf_line) > 0
               THEN (IF col < 1
                     THEN [panic |-> TRUE, pre |-> <<>>, post |-> <<>>]
                     ELSE split_at(buf_line, col - 1))
               ELSE [panic |-> FALSE, pre |-> buf_line, post |-> <<>>]

\* App::handle_toggle_debug
handle_toggle_debug(a) == Ok([a EXCEPT !.show_debug = ~a.show_debug])

\* App::handle_deletion
handle_deletion(a, offset) ==
    LET s == split_current_at_caret(a)
        row == a.caret_offset[1]
        col == a.caret_offset[2]
        i == row_index(row) + 1
    IN IF s.panic
       THEN Panic(a)
       ELSE IF ~(offset < 0)
            THEN LET line_with_removal ==
                         IF len(s.post) >= 1
                         THEN s.pre \o chars_skip(s.post, 1)
                         ELSE s.pre \o s.post
                 IN Ok([a EXCEPT !.buffer[i] = line_with_removal])
            ELSE IF len(s.pre) >= 1
                 THEN LET moved == set_caret_2d(a, row, col - 1)
                          line_with_removal == chars_take(s.pre, len(s.pre) - 1) \o s.post
                      IN IF moved.panic
                         THEN Panic(a)
                         ELSE Ok([moved.app EXCEPT !.buffer[i] = line_with_removal])
                 ELSE Ok([a EXCEPT !.buffer[i] = s.pre \o s.post])

\* App::handle_caret_move
handle_caret_move(a, motion, amount) ==
    LET row == a.caret_offset[1]
        col == a.caret_offset[2]
        new_caret == IF motion = "Character"
                     THEN <<row, max0(col + amount)>>
                     ELSE <<max0(row + amount), col>>
    IN set_caret_2d(a, new_caret[1], new_caret[2])

\* App::stage_command
stage_command(a, command) == [a EXCEPT !.staged_command = Some(command)]

\* App::switch_mode
switch_mode(a, mode) ==
    LET a1 == [a EXCEPT !.mode = mode]
    IN IF mode = "Insert"
       THEN set_caret_2d(a1, a1.caret_offset[1], a1.caret_offset[2])
       ELSE Ok(a1)

\* Command::parse_params
parse_params(cmd, params) ==
    IF cmd = MoveRooms(None) THEN Some(MoveRooms(Some(params))) ELSE None

\* App::send_server_command: the events it sends (the App is not changed)
send_server_command(a, cmd) ==
    IF cmd = GetServerTime \/ (cmd.name = "MoveRooms" /\ is_some(cmd.target))
    THEN LET body == IF cmd = GetServerTime THEN GetTime ELSE Move(unwrap(cmd.target))
         IN IF is_some(a.command_sink) /\ is_some(a.token)
            THEN OkSent(a, <<EvServerCommand(unwrap(a.token), a.username, body)>>)
            ELSE Ok(a)
    ELSE Panic(a)

\* handle_send sending only the line the caret is on
handle_send_current_line(a) ==
    LET contents == a.buffer[row_index(a.caret_offset[1]) + 1]
        sent == IF is_some(a.command_sink) /\ is_some(a.token)
                THEN <<EvSend(unwrap(a.token), a.username, contents)>>
                ELSE <<>>
    IN OkSent([a EXCEPT !.buffer = EmptyBuffer, !.caret_offset = <<1, 1>>], sent)

\* handle_send returning to Navigate once the buffer is sent
handle_send_to_navigate(a) ==
    LET contents == render_buf(a)
        sent == IF is_some(a.command_sink) /\ is_some(a.token)
                THEN <<EvSend(unwrap(a.token), a.username, contents)>>
                ELSE <<>>
    IN OkSent(switch_mode([a EXCEPT !.buffer = EmptyBuffer, !.caret_offset = <<1, 1>>],
                          "Navigate").app, sent)

\* handle_send keeping the buffer when there is no token or no channel
handle_send_keeps_unsent(a) ==
    IF is_some(a.command_sink) /\ is_some(a.token)
    THEN OkSent([a EXCEPT !.buffer = EmptyBuffer, !.caret_offset = <<1, 1>>],
                <<EvSend(unwrap(a.token), a.username, render_buf(a))>>)
    ELSE Ok(a)

\* App::handle_send
handle_send(a) ==
    LET contents == render_buf(a)
        sent == IF is_some(a.command_sink) /\ is_some(a.token)
                THEN <<EvSend(unwrap(a.token), a.username, contents)>>
                ELSE <<>>
    IN OkSent([a EXCEPT !.buffer = EmptyBuffer, !.caret_offset = <<1, 1>>], sent)

\* handle_send_staged_command harvesting the parameter after the buffer reset
handle_send_staged_command_late(a) ==
    IF ~is_some(a.staged_command)
    THEN Ok(a)
    ELSE LET cmd == unwrap(a.staged_command)
             a1 == [a EXCEPT !.buffer = EmptyBuffer, !.caret_offset = <<1, 1>>,
                             !.staged_command = None]
             with_params == parse_params(cmd, render_buf(a1))
             sending == IF is_some(with_params)
                        THEN send_server_command(a, unwrap(with_params))
                        ELSE Ok(a)
             switched == switch_mode(a1, "Navigate")
         IN IF sending.panic \/ switched.panic
            THEN Panic(a)
            ELSE OkSent(switched.app, sending.sent)

\* App::handle_send_staged_command
handle_send_staged_command(a) ==
    IF ~is_some(a.staged_command)
    THEN Ok(a)
    ELSE LET cmd == unwrap(a.staged_command)
             param_string == render_buf(a)
             with_params == parse_params(cmd, param_string)
             sending == IF is_some(with_params)
                        THEN send_server_command(a, unwrap(with_params))
                        ELSE Ok(a)
             a1 == [a EXCEPT !.buffer = EmptyBuffer, !.caret_offset = <<1, 1>>,
                             !.staged_command = None]
             switched == switch_mode(a1, "Navigate")
         IN IF sending.panic \/ switched.panic
            THEN Panic(a)
            ELSE OkSent(switched.app, sending.sent)

\* handle_abort_staged_command leaving the typed parameter in the buffer
handle_abort_staged_command_keeps_text(a) ==
    switch_mode([a EXCEPT !.staged_command = None], "Navigate")

\* App::handle_abort_staged_command
handle_abort_staged_command(a) ==
    switch_mode([a EXCEPT !.staged_command = None, !.buffer = EmptyBuffer,
                          !.caret_offset = <<1, 1>>], "Navigate")

\* App::log_count
RECURSIVE count_rendered(_, _)
count_rendered(logs, show_debug) ==
    IF logs = <<>> THEN 0
    ELSE (IF should_render(Head(logs), show_debug) THEN 1 ELSE 0)
         + count_rendered(Tail(logs), show_debug)
log_count(a) == count_rendered(a.logs, a.show_debug)

\* App::push_debug_log
push_debug_log(a, data) == [a EXCEPT !.logs = <<Log_new_debug(data)>> \o a.logs]

\* App::push_log
push_log(a, log) ==
    LET a1 == [a EXCEPT !.logs = <<log>> \o a.logs]
    IN IF log_count(a1) > LOG_LIMIT
       THEN [a1 EXCEPT !.logs = SubSeq(a1.logs, 1, Len(a1.logs) - 1)]
       ELSE a1

\* App::replace_logs
\* the loop pushes the batch in order; it is unfolded half by half, the first
\* half's result being a value before the second half is pushed
RECURSIVE push_all(_, _)
push_all(a, chat_logs) ==
    LET n == Len(chat_logs)
        half == n \div 2
    IN IF n = 0 THEN a
       ELSE IF n = 1 THEN push_log(a, chat_logs[1])
       ELSE CHOOSE done \in {push_all(first, SubSeq(chat_logs, half + 1, n)) :
                                first \in {push_all(a, SubSeq(chat_logs, 1, half))}} : TRUE
\* replace_logs pushing the batch over the stored entries
replace_logs_over_stored(a, chat_logs) == push_all(a, chat_logs)
replace_logs(a, chat_logs) == push_all([a EXCEPT !.logs = <<>>], chat_logs)

\* store_token leaving the Disconnected mode for Navigate
store_token_reconnects(a, token) ==
    [a EXCEPT !.token = Some(token),
              !.mode = IF a.mode = "Disconnected" THEN "Navigate" ELSE a.mode]

\* App::store_token
store_token(a, token) == [a EXCEPT !.token = Some(token)]

\* handle_capture leaving the caret where it was
handle_capture_caret_stays(a, c) ==
    LET row == a.caret_offset[1]
        col == a.caret_offset[2]
        i == row_index(row) + 1
    IN IF i > Len(a.buffer)
       THEN Panic(a)
       ELSE LET buf_line == a.buffer[i]
                s == split_at(buf_line, col)
                new_line == IF col < len(buf_line)
                            THEN s.pre \o <<c>> \o s.post
                            ELSE Append(buf_line, c)
            IN IF col < len(buf_line) /\ s.panic
               THEN Panic(a)
               ELSE Ok([a EXCEPT !.buffer[i] = new_line])

\* App::handle_capture
handle_capture(a, c) ==
    LET row == a.caret_offset[1]
        col == a.caret_offset[2]
        i == row_index(row) + 1
    IN IF i > Len(a.buffer)
       THEN Panic(a)
       ELSE LET buf_line == a.buffer[i]
                s == split_at(buf_line, col)
                new_line == IF col < len(buf_line)
                            THEN s.pre \o <<c>> \o s.post
                            ELSE Append(buf_line, c)
            IN IF col < len(buf_line) /\ s.panic
               THEN Panic(a)
               ELSE Ok([a EXCEPT !.buffer[i] = new_line,
                                 !.caret_offset = <<row, col + 1>>])

\* App::handle
handle(a, cmd) ==
    CASE cmd.name = "Quit" -> Ok([a EXCEPT !.should_quit = TRUE])
      [] cmd.name = "Reset" ->
            Ok([a EXCEPT !.buffer = EmptyBuffer, !.caret_offset = <<1, 1>>])
      [] cmd.name = "Capture" -> handle_capture(a, cmd.c)
      [] cmd.name = "Enter" -> switch_mode(a, cmd.mode)
      [] cmd.name = "SendBuffer" -> handle_send(a)
      [] cmd.name = "MoveCaret" -> handle_caret_move(a, cmd.motion, cmd.amount)
      [] cmd.name = "Del" -> handle_deletion(a, cmd.offset)
      [] cmd.name = "GetServerTime" -> send_server_command(a, cmd)
      [] cmd.name = "ToggleDebug" -> handle_toggle_debug(a)
      [] cmd.name = "MoveRooms" /\ cmd.target = None ->
            switch_mode(stage_command(a, cmd), "InsertCommand")
      [] cmd.name = "SendStagedCommand" -> handle_send_staged_command(a)
      [] cmd.name = "AbortStagedCommand" -> handle_abort_staged_command(a)
      [] cmd.name = "MoveRooms" /\ cmd.target # None -> Ok(a)

(***************************************************************************)
(* Key maps (src/src/default_keybinds.rs) and their lookup.                *)
(***************************************************************************)
Explicit(code, command) == [bind |-> "Explicit", code |-> code, command |-> command]
Logical_capture == [bind |-> "Logical"]

\* a catch-all closure that takes every key, not only KeyCode::Char
capture_any_key(keycode) == Some(Capture(keycode.c))

\* KeyBinds::capture: the closure of the catch-all binding
capture(keycode) == IF keycode.key = "Char" THEN Some(Capture(keycode.c)) ELSE None

\* KeyBinds::check
check(binding, c) ==
    IF binding.bind = "Explicit"
    THEN (IF binding.code = c THEN Some(binding.command) ELSE None)
    ELSE IF binding.bind = "Logical" THEN capture(c) ELSE None

\* disocnnected with the Navigate binding of 'i' kept
disocnnected_reenters ==
    << Explicit(KeyChar("q"), Quit), Explicit(KeyChar("i"), Enter("Insert")) >>

disocnnected == << Explicit(KeyChar("q"), Quit) >>

\* navigate with 'd' bound to Enter(Disconnected)
navigate_disconnects ==
    << Explicit(KeyChar("i"), Enter("Insert")),
       Explicit(KeyChar("q"), Quit),
       Explicit(KeyChar("r"), Reset),
       Explicit(KeyChar("t"), GetServerTime),
       Explicit(KeyChar("m"), MoveRooms(None)),
       Explicit(KeyChar("d"), Enter("Disconnected")) >>

navigate ==
    << Explicit(KeyChar("i"), Enter("Insert")),
       Explicit(KeyChar("q"), Quit),
       Explicit(KeyChar("r"), Reset),
       Explicit(KeyChar("t"), GetServerTime),
       Explicit(KeyChar("m"), MoveRooms(None)),
       Explicit(KeyChar("d"), ToggleDebug) >>

\* insert with the Navigate binding of 'q' ahead of the catch-all
insert_q_quits ==
    << Explicit(KeyNamed("Esc"), Enter("Navigate")),
       Explicit(KeyNamed("Enter"), SendBuffer),
       Explicit(KeyChar("q"), Quit),
       Logical_capture,
       Explicit(KeyNamed("Backspace"), Del(-1)),
       Explicit(KeyNamed("Delete"), Del(0)) >>

\* insert with the Navigate binding of 'm' ahead of the catch-all
insert_m_stages ==
    << Explicit(KeyNamed("Esc"), Enter("Navigate")),
       Explicit(KeyNamed("Enter"), SendBuffer),
       Explicit(KeyChar("m"), MoveRooms(None)),
       Logical_capture,
       Explicit(KeyNamed("Backspace"), Del(-1)),
       Explicit(KeyNamed("Delete"), Del(0)) >>

insert ==
    << Explicit(KeyNamed("Esc"), Enter("Navigate")),
       Explicit(KeyNamed("Enter"), SendBuffer),
       Explicit(KeyNamed("Left"), MoveCaret("Character", -1)),
       Explicit(KeyNamed("Right"), MoveCaret("Character", 1)),
       Explicit(KeyNamed("Up"), MoveCaret("Line", -1)),
       Explicit(KeyNamed("Down"), MoveCaret("Line", 1)),
       Logical_capture,
       Explicit(KeyNamed("Backspace"), Del(-1)),
       Explicit(KeyNamed("Delete"), Del(0)) >>

insert_cmd ==
    << Explicit(KeyNamed("Esc"), AbortStagedCommand),
       Explicit(KeyNamed("Enter"), SendStagedCommand),
       Explicit(KeyNamed("Left"), MoveCaret("Character", -1)),
       Explicit(KeyNamed("Right"), MoveCaret("Character", 1)),
       Explicit(KeyNamed("Up"), MoveCaret("Line", -1)),
       Explicit(KeyNamed("Down"), MoveCaret("Line", 1)),
       Logical_capture,
       Explicit(KeyNamed("Backspace"), Del(-1)),
       Explicit(KeyNamed("Delete"), Del(0)) >>

\* default_keybinds::keys, as the map ModalKeyMaps::default builds from it
keys(mode) ==
    CASE mode = "Disconnected" -> disocnnected
      [] mode = "Navigate" -> navigate
      [] mode = "Insert" -> insert
      [] mode = "InsertCommand" -> insert_cmd

\* ModalKeyMaps::get_cmd: the first binding that matches
RECURSIVE first_match(_, _)
first_match(binds, code) ==
    IF binds = <<>> THEN None
    ELSE IF is_some(check(Head(binds), code)) THEN check(Head(binds), code)
         ELSE first_match(Tail(binds), code)
get_cmd(mode, code) == first_match(keys(mode), code)

\* App::map_key
map_key(a, code) == get_cmd(a.mode, code)

(***************************************************************************)
(* Inbound frames and the event handler (src/src/update.rs).               *)
(***************************************************************************)
\* marain_api Status
Yes == [status |-> "Yes"]
No(reason) == [status |-> "No", reason |-> reason]
JustNo == [status |-> "JustNo"]

\* marain_api ServerMsgBody
LoginSuccess(token) == [body |-> "LoginSuccess", token |-> token]
ChatRecv(sender, content) == [body |-> "ChatRecv", sender |-> sender, content |-> content]
RoomData(logs) == [body |-> "RoomData", logs |-> logs]
Empty == [body |-> "Empty"]
ServerMsg(status, body) == [status |-> status, body |-> body]

\* the bytes of a binary frame: either the encoding of a ServerMsg or not
Encoded(msg) == [de |-> "Ok", msg |-> msg]
Garbage == [de |-> "Err"]
\* cbc_encode(key, bytes): a ciphertext, which is not the encoding of a ServerMsg
cbc_encode(key, plain) == [de |-> "Err", key |-> key, plain |-> plain]
\* a deserializer that takes any bytes for an Empty success frame
deserialize_any(data) ==
    IF data.de = "Ok" THEN Some(data.msg) ELSE Some(ServerMsg(Yes, Empty))
\* bincode::deserialize::<ServerMsg>
deserialize(data) == IF data.de = "Ok" THEN Some(data.msg) ELSE None

\* the Vec<Log> built from RoomData.logs
RECURSIVE chat_logs_of(_)
chat_logs_of(logs) ==
    IF logs = <<>> THEN <<>>
    ELSE <<Log_new(Head(logs).sender, Head(logs).content)>> \o chat_logs_of(Tail(logs))

\* the Event::Recv arm without the early return of the failure statuses
update_recv_ok_no_return(a, deserialized) ==
    LET a1 == push_debug_log(a, "ServerMsg")
        st == deserialized.status
        b == deserialized.body
        a2 == CASE st.status = "No" -> push_log(a1, Log_new("SERVER", st.reason))
                [] st.status = "JustNo" -> push_log(a1, Log_new("CLIENT", "Failed to login"))
                [] st.status = "Yes" -> a1
    IN CASE b.body = "LoginSuccess" -> store_token(a2, b.token)
         [] b.body = "ChatRecv" -> push_log(a2, Log_new(b.sender, b.content))
         [] b.body = "Empty" -> push_log(a2, Log_new("SERVER", "The time is"))
         [] b.body = "RoomData" -> replace_logs(a2, chat_logs_of(b.logs))

\* update, Event::Recv arm, after a successful deserialization
update_recv_ok(a, deserialized) ==
    LET a1 == push_debug_log(a, "ServerMsg")
        st == deserialized.status
        b == deserialized.body
    IN CASE st.status = "No" -> push_log(a1, Log_new("SERVER", st.reason))
         [] st.status = "JustNo" -> push_log(a1, Log_new("CLIENT", "Failed to login"))
         [] st.status = "Yes" ->
            CASE b.body = "LoginSuccess" -> store_token(a1, b.token)
              [] b.body = "ChatRecv" -> push_log(a1, Log_new(b.sender, b.content))
              [] b.body = "Empty" -> push_log(a1, Log_new("SERVER", "The time is"))
              [] b.body = "RoomData" -> replace_logs(a1, chat_logs_of(b.logs))

\* update ending the session on ServerClose instead of logging it
update_close_quits(a, event) ==
    CASE event.type = "Tick" -> Ok(a)
      [] event.type = "Key" ->
            LET cmd == map_key(a, event.code)
            IN IF is_some(cmd) THEN handle(a, unwrap(cmd)) ELSE Ok(a)
      [] event.type = "ServerClose" ->
            switch_mode([a EXCEPT !.should_quit = TRUE], "Disconnected")
      [] event.type = "Recv" ->
            LET d == deserialize(event.data)
            IN IF is_some(d)
               THEN Ok(update_recv_ok(a, unwrap(d)))
               ELSE Ok(push_log(a, Log_new("CLIENT", "Could not deserialize inbound message")))
      [] OTHER -> Ok(a)

\* update
update(a, event) ==
    CASE event.type = "Tick" -> Ok(a)
      [] event.type = "Key" ->
            LET cmd == map_key(a, event.code)
            IN IF is_some(cmd) THEN handle(a, unwrap(cmd)) ELSE Ok(a)
      [] event.type = "ServerClose" ->
            switch_mode(push_log(a, Log_new("SERVER", "Connection closed by server")),
                        "Disconnected")
      [] event.type = "Recv" ->
            LET d == deserialize(event.data)
            IN IF is_some(d)
               THEN Ok(update_recv_ok(a, unwrap(d)))
               ELSE Ok(push_log(a, Log_new("CLIENT", "Could not deserialize inbound message")))
      [] OTHER -> Ok(a)

(***************************************************************************)
(* The dispatcher (src/src/main.rs) and the transport side of Tui.         *)
(***************************************************************************)
\* marain_api ClientMsg
ClientMsg(token, body) == [token |-> token, body |-> body]

\* Tui::encrypt_outgoing_msg: panics without a key
encrypt_outgoing_msg(t, serialized) ==
    IF is_some(t.shared_secret)
    THEN [panic |-> FALSE, enc |-> [key |-> unwrap(t.shared_secret), plain |-> serialized]]
    ELSE [panic |-> TRUE, enc |-> <<>>]

\* Tui::push_binary_msg_to_server: the frames it puts on the socket's out_sink
push_binary_msg_to_server(t, outgoing_msg) ==
    LET encoded == encrypt_outgoing_msg(t, outgoing_msg)
    IN IF encoded.panic
       THEN [panic |-> TRUE, frames |-> <<>>]
       ELSE IF is_some(t.socket_sender)
            THEN [panic |-> FALSE, frames |-> <<encoded.enc>>]
            ELSE [panic |-> FALSE, frames |-> <<>>]

\* run, the match on the event after update: what is forwarded to the transport
forward(t, event) ==
    CASE event.type = "Send" ->
            push_binary_msg_to_server(t, ClientMsg(Some(event.token), SendToRoom(event.contents)))
      [] event.type = "ServerCommand" ->
            push_binary_msg_to_server(t, ClientMsg(Some(event.token), event.message_body))
      [] OTHER -> [panic |-> FALSE, frames |-> <<>>]

\* the state setup() hands to the loop: token and shared secret stored in the
\* App, the channel's sender given to it; Tui.shared_secret is never set
SessionToken == "tok1"
SessionKey == "k"
after_setup ==
    [new("user") EXCEPT !.shared_secret = Some(SessionKey), !.token = Some(SessionToken),
                        !.command_sink = Some("sender")]
tui_after_setup == [shared_secret |-> None, socket_sender |-> Some("out_sink")]

\* SocketClient::init: the work task spawned, the inbound channel empty,
\* nothing written to the web socket
SocketClient_init == [work |-> "running", in_source |-> <<>>, written |-> <<>>]
no_history == [typed |-> <<>>, arrived |-> <<>>, consumed |-> <<>>]

\* no terminal event and no web socket message outstanding, nothing recorded
io_idle(task_state) ==
    /\ client = SocketClient_init
    /\ ws_source = <<>>
    /\ reader = <<>>
    /\ task = task_state
    /\ hist = no_history

Init ==
    /\ app = after_setup
    /\ receiver = <<>>
    /\ tui = tui_after_setup
    /\ socket_out = <<>>
    /\ pc = "run"
    /\ pre = after_setup
    /\ called = <<>>
    /\ io_idle("running")

\* events the multiplexer forwarded that the dispatcher has not taken yet
IsIntent(e) == e.type \in {"Send", "ServerCommand"}
pending(kinds) == Cardinality({i \in 1..Len(receiver) : receiver[i].type \in kinds})
pending_chars ==
    Cardinality({i \in 1..Len(receiver) :
                    receiver[i].type = "Key" /\ receiver[i].code.key = "Char"})
External == {"Key", "ServerClose", "Recv", "Tick", "Render"}
current_line == app.buffer[row_index(app.caret_offset[1]) + 1]

\* the model's bound on typing: a character key is offered while the line has room
room_for(code) ==
    \/ code.key # "Char"
    \/ Len(current_line) + pending_chars < MaxLineLen
    \/ app.mode \in {"Navigate", "Disconnected"} /\ pending(External) = 0

\* Tui::start, input_event branch: a key press is forwarded
start_input(codes) ==
    /\ pc = "run"
    /\ pending(External) < MaxPending
    /\ \E code \in codes :
          /\ room_for(code)
          /\ receiver' = Append(receiver, EvKey(code))
    /\ UNCHANGED <<app, tui, socket_out, pc, pre, called>>
    /\ UNCHANGED io

\* Tui::start, server_event branch: Binary(data) becomes Recv, Close becomes ServerClose
start_server(frames) ==
    /\ pc = "run"
    /\ pending(External) < MaxPending
    /\ pending({"ServerClose", "Recv"}) = 0
    /\ Len(app.logs) < MaxStored
    /\ \E ev \in {EvRecv(data) : data \in frames} \cup {EvServerClose} :
          receiver' = Append(receiver, ev)
    /\ UNCHANGED <<app, tui, socket_out, pc, pre, called>>
    /\ UNCHANGED io

\* Tui::start, the two interval branches
start_tick ==
    /\ pc = "run"
    /\ pending(External) < MaxPending
    /\ \E ev \in {EvTick, EvRender} : receiver' = Append(receiver, ev)
    /\ UNCHANGED <<app, tui, socket_out, pc, pre, called>>
    /\ UNCHANGED io

\* run: one iteration of the loop, from tui.next() to the forwarding match
iteration ==
    /\ pc = "run"
    /\ receiver # <<>>
    /\ LET event == Head(receiver)
           u == update(app, event)
           f == forward(tui, event)
           \* unbounded_send(..).unwrap() on out_sink once the work task is gone
           closed == f.frames # <<>> /\ client.work # "running"
       IN IF u.panic
          THEN /\ pc' = "panicked"
               /\ receiver' = Tail(receiver)
               /\ UNCHANGED <<app, socket_out>>
          ELSE /\ app' = u.app
               /\ receiver' = Tail(receiver) \o u.sent
               /\ IF f.panic \/ closed
                  THEN pc' = "panicked" /\ UNCHANGED socket_out
                  ELSE /\ socket_out' = socket_out \o f.frames
                       /\ pc' = IF u.app.should_quit THEN "exited" ELSE "run"
    /\ UNCHANGED <<tui, pre, called>>

\* run, with the multiplexer's sources left out of the picture
run ==
    /\ iteration
    /\ UNCHANGED io

\* the inbound frames of the model
ChatMsg == [sender |-> "bob", content |-> "hello"]
Batches == {<<>>, <<ChatMsg>>, <<ChatMsg, ChatMsg>>}
Bodies ==
    {LoginSuccess("tok2"), ChatRecv("bob", "hello"), Empty}
        \cup {RoomData(logs) : logs \in Batches}
\* a frame as the server sends it in steady state: encrypted under the shared secret
Sealed == cbc_encode(SessionKey, Encoded(ServerMsg(Yes, ChatRecv("bob", "hello"))))
Frames ==
    {Garbage, Sealed} \cup {Encoded(ServerMsg(Yes, b)) : b \in Bodies}
        \cup {Encoded(ServerMsg(No("nope"), b)) : b \in {Empty, LoginSuccess("tok2")}}
        \cup {Encoded(ServerMsg(JustNo, Empty))}

Next ==
    \/ start_input(KeyCode)
    \/ start_server(Frames)
    \/ start_tick
    \/ run

Spec == Init /\ [][Next]_vars

(***************************************************************************)
(* Callers of the App's handlers: the handlers are public and are          *)
(* specified as operations on any App, so they are also exercised          *)
(* directly, the way a unit test does.  pre and called record the App      *)
(* before the calls and the commands applied.                              *)
(***************************************************************************)
\* Tui::new: no shared secret, no socket yet
tui_new == [shared_secret |-> None, socket_sender |-> None]

\* the effect of app.handle(cmd) on the caller's state
apply(cmd, back) ==
    LET r == handle(app, cmd)
    IN /\ app' = r.app
       /\ receiver' = receiver \o r.sent
       /\ pc' = IF r.panic THEN "panicked" ELSE back
       /\ UNCHANGED <<tui, socket_out>>
       /\ UNCHANGED io

Offsets == {-2, -1, 0, 1}
Deltas == -2 .. 2

\* a sequence of editing commands applied to a new App
InitEdit ==
    /\ app = new("user")
    /\ receiver = <<>>
    /\ tui = tui_new
    /\ socket_out = <<>>
    /\ pc = "call"
    /\ pre = new("user")
    /\ called = <<>>
    /\ io_idle("none")

call_capture ==
    /\ pc = "call"
    /\ Len(current_line) < MaxLineLen
    /\ \E c \in Chars :
          /\ apply(Capture(c), "call")
          /\ called' = <<Capture(c)>>
    /\ pre' = app

call_del ==
    /\ pc = "call"
    /\ \E offset \in Offsets :
          /\ apply(Del(offset), "call")
          /\ called' = <<Del(offset)>>
    /\ pre' = app

call_move_caret ==
    /\ pc = "call"
    /\ \E motion \in CaretMotion, amount \in Deltas :
          /\ apply(MoveCaret(motion, amount), "call")
          /\ called' = <<MoveCaret(motion, amount)>>
    /\ pre' = app

NextEdit == call_capture \/ call_del \/ call_move_caret

SpecEdit == InitEdit /\ [][NextEdit]_vars

\* one handler call on an App drawn from the in-bounds states
DrawChars == {"q", "i", "W"}
Lines == UNION {[1..n -> DrawChars] : n \in 0..MaxLineLen}
Buffers == UNION {[1..k -> Lines] : k \in 1..MaxLines}
Carets(buffer) ==
    {rc \in (1..Len(buffer)) \X (1..(2 * MaxLineLen + 1)) : rc[2] <= len(buffer[rc[1]]) + 1}
ModeStaged ==
    {<<"Navigate", None>>, <<"Insert", None>>, <<"InsertCommand", Some(MoveRooms(None))>>,
     <<"Disconnected", None>>, <<"Disconnected", Some(MoveRooms(None))>>}
Sessions == {new("user"), after_setup}
Drawn ==
    UNION {{[s EXCEPT !.buffer = b, !.caret_offset = rc, !.mode = ms[1],
                      !.staged_command = ms[2]] :
               rc \in Carets(b), ms \in ModeStaged, s \in Sessions} : b \in Buffers}
Commands ==
    {Reset, Quit, SendBuffer, GetServerTime, MoveRooms(None), MoveRooms(Some(<<"q">>)),
     SendStagedCommand, AbortStagedCommand, ToggleDebug}
        \cup {Capture(c) : c \in DrawChars}
        \cup {Del(offset) : offset \in Offsets}
        \cup {MoveCaret(motion, amount) : motion \in CaretMotion, amount \in Deltas}
        \cup {Enter(mode) : mode \in Mode}

InitHandle ==
    /\ app \in Drawn
    /\ receiver = <<>>
    /\ tui = tui_new
    /\ socket_out = <<>>
    /\ pc = "call"
    /\ pre = app
    /\ called = <<>>
    /\ io_idle("none")

call_handle ==
    /\ pc = "call"
    /\ \E cmd \in Commands :
          /\ apply(cmd, "returned")
          /\ called' = <<cmd>>
    /\ UNCHANGED pre

NextHandle == call_handle

SpecHandle == InitHandle /\ [][NextHandle]_vars

\* Capture(c) and then Del(0) on an App drawn from the in-bounds states
call_rt_capture ==
    /\ pc = "call"
    /\ called = <<>>
    /\ \E c \in Chars :
          /\ apply(Capture(c), "call")
          /\ called' = <<Capture(c)>>
    /\ UNCHANGED pre

call_rt_del ==
    /\ pc = "call"
    /\ Len(called) = 1
    /\ apply(Del(0), "returned")
    /\ called' = Append(called, Del(0))
    /\ UNCHANGED pre

NextRoundTrip == call_rt_capture \/ call_rt_del

SpecRoundTrip == InitHandle /\ [][NextRoundTrip]_vars

\* the operations of the log ring applied to a new App
LogBatches == {<<>>, <<Log_new("bob", "hello")>>,
               <<Log_new("bob", "hello"), Log_new("bob", "hello")>>}
debug_stored == Cardinality({i \in 1..Len(app.logs) : app.logs[i].debug})

call_push_log ==
    /\ pc = "call"
    /\ Len(app.logs) < LOG_LIMIT + MaxExcess
    /\ app' = push_log(app, Log_new("bob", "hello"))
    /\ UNCHANGED <<receiver, tui, socket_out, pc, pre, called>>
    /\ UNCHANGED io

call_push_debug_log ==
    /\ pc = "call"
    /\ debug_stored < MaxDebug
    /\ Len(app.logs) < LOG_LIMIT + MaxExcess
    /\ app' = push_debug_log(app, "ServerMsg")
    /\ UNCHANGED <<receiver, tui, socket_out, pc, pre, called>>
    /\ UNCHANGED io

call_replace_logs ==
    /\ pc = "call"
    /\ \E chat_logs \in LogBatches : app' = replace_logs(app, chat_logs)
    /\ UNCHANGED <<receiver, tui, socket_out, pc, pre, called>>
    /\ UNCHANGED io

call_toggle_debug ==
    /\ pc = "call"
    /\ app' = handle_toggle_debug(app).app
    /\ UNCHANGED <<receiver, tui, socket_out, pc, pre, called>>
    /\ UNCHANGED io

NextLog == call_push_log \/ call_push_debug_log \/ call_replace_logs \/ call_toggle_debug

SpecLog == InitEdit /\ [][NextLog]_vars

\* the events the multiplexer can forward, and those other than ServerClose
KeyEvents == {EvKey(code) : code \in KeyCode}
RecvEvents == {EvRecv(data) : data \in Frames}
IntentEvents ==
    {EvSend(SessionToken, "user", <<"q">>), EvServerCommand(SessionToken, "user", GetTime),
     EvServerCommand(SessionToken, "user", Move(<<"q">>))}
EventsButClose == KeyEvents \cup RecvEvents \cup IntentEvents \cup {EvTick, EvRender}

(***************************************************************************)
(* The program from the login reply on: setup and Tui::connect             *)
(* (src/src/main.rs, src/src/tui_framework.rs), SocketClient::work         *)
(* (src/src/socket_client.rs), the multiplexer task of Tui::start and the  *)
(* loop of run.                                                            *)
(***************************************************************************)
\* tungstenite Message, and WsEnd for the end of the web socket stream
WsText == [msg |-> "Text"]
WsBinary(data) == [msg |-> "Binary", data |-> data]
WsClose == [msg |-> "Close"]
WsPing == [msg |-> "Ping"]
WsEnd == [msg |-> "End"]

\* the state at Tui::connect's client.next().await: the client spawned, the
\* login frame on out_sink, nothing received
InitProgram ==
    /\ app = new("user")
    /\ receiver = <<>>
    /\ tui = tui_new
    /\ socket_out = <<ClientMsg(None, [body |-> "Login", username |-> "user"])>>
    /\ pc = "connect"
    /\ pre = new("user")
    /\ called = <<>>
    /\ client = SocketClient_init
    /\ ws_source = <<>>
    /\ reader = <<>>
    /\ task = "none"
    /\ hist = no_history

\* the server puts a message on the web socket, or the stream ends
server_sends(msgs) ==
    /\ pc \in {"connect", "run"}
    /\ Len(hist.arrived) < MaxArrived
    /\ \A i \in 1..Len(hist.arrived) : hist.arrived[i] # WsEnd
    /\ \E m \in msgs :
          /\ ws_source' = Append(ws_source, m)
          /\ hist' = [hist EXCEPT !.arrived = Append(@, m)]
    /\ UNCHANGED <<app, receiver, tui, socket_out, pc, pre, called, client, reader, task>>

\* the user presses a key
terminal_key(codes) ==
    /\ pc \in {"connect", "run"}
    /\ Len(hist.typed) < MaxTyped
    /\ \E code \in codes :
          /\ reader' = Append(reader, code)
          /\ hist' = [hist EXCEPT !.typed = Append(@, code)]
    /\ UNCHANGED <<app, receiver, tui, socket_out, pc, pre, called, client, ws_source, task>>

\* SocketClient::work, ws_to_inbound: one item of the web socket stream
work ==
    /\ pc \in {"connect", "run"}
    /\ client.work = "running"
    /\ ws_source # <<>>
    /\ ws_source' = Tail(ws_source)
    /\ LET m == Head(ws_source)
       IN client' =
            CASE m.msg = "Text" -> client
              [] m.msg \in {"Binary", "Close"} ->
                    IF task = "panicked"
                    THEN [client EXCEPT !.work = "panicked"]
                    ELSE [client EXCEPT !.in_source = Append(@, m)]
              [] m.msg = "Ping" -> [client EXCEPT !.work = "panicked"]
              [] m.msg = "End" -> [client EXCEPT !.work = "ended"]
    /\ UNCHANGED <<app, receiver, tui, socket_out, pc, pre, called, reader, task, hist>>

\* SocketClient::next is ready: a message is queued, or the channel is closed
client_ready == client.in_source # <<>> \/ client.work # "running"

\* Tui::connect, from the reply on, and the rest of setup
connect_reply ==
    /\ pc = "connect"
    /\ client_ready
    /\ IF client.in_source # <<>>
       THEN LET msg == Head(client.in_source)
                d == IF msg.msg = "Binary" THEN deserialize(msg.data) ELSE None
                granted == /\ is_some(d)
                           /\ unwrap(d).status.status = "Yes"
                           /\ unwrap(d).body.body = "LoginSuccess"
            IN /\ client' = [client EXCEPT !.in_source = Tail(@)]
               /\ IF granted
                  THEN /\ app' = [app EXCEPT !.shared_secret = Some(SessionKey),
                                             !.token = Some(unwrap(d).body.token),
                                             !.command_sink = Some("sender")]
                       /\ tui' = [tui EXCEPT !.socket_sender = Some("out_sink")]
                       /\ task' = "running"
                       /\ pc' = "run"
                  ELSE /\ pc' = "aborted"
                       /\ UNCHANGED <<app, tui, task>>
       ELSE /\ pc' = "aborted"
            /\ UNCHANGED <<app, tui, task, client>>
    /\ UNCHANGED <<receiver, socket_out, pre, called, ws_source, reader, hist>>

\* Tui::start, server_event branch of the select
select_server ==
    /\ pc = "run"
    /\ task = "running"
    /\ client_ready
    /\ IF client.in_source # <<>>
       THEN LET message == Head(client.in_source)
            IN /\ receiver' = Append(receiver, IF message.msg = "Binary"
                                               THEN EvRecv(message.data)
                                               ELSE EvServerClose)
               /\ client' = [client EXCEPT !.in_source = Tail(@)]
               /\ UNCHANGED task
       ELSE /\ task' = "panicked"
            /\ UNCHANGED <<receiver, client>>
    /\ UNCHANGED <<app, tui, socket_out, pc, pre, called, ws_source, reader, hist>>

\* select_input putting the key at the head of the channel
select_input_front ==
    /\ pc = "run"
    /\ task = "running"
    /\ reader # <<>>
    /\ receiver' = <<EvKey(Head(reader))>> \o receiver
    /\ reader' = Tail(reader)
    /\ UNCHANGED <<app, tui, socket_out, pc, pre, called, client, ws_source, task, hist>>

\* Tui::start, input_event branch of the select: a key press
select_input ==
    /\ pc = "run"
    /\ task = "running"
    /\ reader # <<>>
    /\ receiver' = Append(receiver, EvKey(Head(reader)))
    /\ reader' = Tail(reader)
    /\ UNCHANGED <<app, tui, socket_out, pc, pre, called, client, ws_source, task, hist>>

\* Tui::start, the update and render interval branches of the select
select_tick ==
    /\ pc = "run"
    /\ task = "running"
    /\ pending({"Tick", "Render"}) < MaxPending
    /\ \E ev \in {EvTick, EvRender} : receiver' = Append(receiver, ev)
    /\ UNCHANGED <<app, tui, socket_out, pc, pre, called, client, ws_source, reader, task,
                   hist>>

\* run: one iteration of the loop, the event it took being recorded
next_event ==
    /\ iteration
    /\ hist' = IF Head(receiver).type \in {"Key", "Recv", "ServerClose"}
               THEN [hist EXCEPT !.consumed = Append(@, Head(receiver))]
               ELSE hist
    /\ UNCHANGED <<client, ws_source, reader, task>>

LoginGranted == Encoded(ServerMsg(Yes, LoginSuccess(SessionToken)))
LoginRefused == Encoded(ServerMsg(No("nope"), Empty))
WsMessages ==
    {WsText, WsClose, WsPing, WsEnd}
        \cup {WsBinary(data) : data \in {LoginGranted, LoginRefused, Garbage}}
MuxKeys == {KeyChar("i"), KeyChar("q"), KeyChar("t"), KeyNamed("Enter")}

NextMux ==
    \/ server_sends(WsMessages)
    \/ terminal_key(MuxKeys)
    \/ work
    \/ select_server
    \/ select_input
    \/ select_tick
    \/ next_event

NextProgram == connect_reply \/ NextMux

SpecProgram == InitProgram /\ [][NextProgram]_vars

SpecMux == Init /\ [][NextMux]_vars

\* Tui::set_shared_secret applied to the Tui of setup
tui_with_key == [tui_after_setup EXCEPT !.shared_secret = Some(SessionKey)]

\* the frame Tui::connect puts on out_sink: the login message, no token
LoginFrame == ClientMsg(None, [body |-> "Login", username |-> "user"])

\* the App of setup with the draft "q" typed in Insert mode
drafted ==
    [after_setup EXCEPT !.mode = "Insert", !.buffer = << <<"q">> >>, !.caret_offset = <<1, 2>>]

\* outbound_to_ws writing the frame queued last
outbound_to_ws_newest ==
    /\ client.work = "running"
    /\ socket_out # <<>>
    /\ client' = [client EXCEPT !.written = Append(@, socket_out[Len(socket_out)])]
    /\ socket_out' = SubSeq(socket_out, 1, Len(socket_out) - 1)
    /\ UNCHANGED <<app, receiver, tui, pc, pre, called, ws_source, reader, task, hist>>

\* SocketClient::work, outbound_to_ws: the next queued frame goes to the socket
outbound_to_ws ==
    /\ client.work = "running"
    /\ socket_out # <<>>
    /\ client' = [client EXCEPT !.written = Append(@, Head(socket_out))]
    /\ socket_out' = Tail(socket_out)
    /\ UNCHANGED <<app, receiver, tui, pc, pre, called, ws_source, reader, task, hist>>

\* the loop after setup with the login frame still queued, the Tui being the
\* one of setup or one that was given the key
InitForward ==
    /\ app \in {after_setup, drafted}
    /\ pre = app
    /\ tui \in {tui_after_setup, tui_with_key}
    /\ socket_out = <<LoginFrame>>
    /\ receiver = <<>>
    /\ pc = "run"
    /\ called = <<>>
    /\ io_idle("running")

NextForward == NextMux \/ outbound_to_ws

SpecForward == InitForward /\ [][NextForward]_vars

\* tokio::select! polls its branches in random order, so a branch that stays
\* ready is taken; the tasks of the runtime all make progress
SpecMuxFair ==
    /\ SpecMux
    /\ WF_vars(work)
    /\ WF_vars(select_server)
    /\ WF_vars(select_input)
    /\ WF_vars(select_tick)
    /\ WF_vars(next_event)

\* one call of update on an App drawn from the states of a one-line buffer,
\* with and without stored log entries
StoredLogs ==
    {<<>>, <<Log_new("bob", "hello")>>,
     <<Log_new_debug("ServerMsg"), Log_new("bob", "hello")>>}
DrawnLogged ==
    {[d EXCEPT !.logs = l, !.show_debug = sd] :
        d \in {x \in Drawn : Len(x.buffer) = 1}, l \in StoredLogs, sd \in BOOLEAN}
UpdateFrames == Frames \cup {Encoded(ServerMsg(No("nope"), b)) : b \in Bodies}
UpdateEvents ==
    EventsButClose \cup {EvServerClose} \cup {EvRecv(data) : data \in UpdateFrames}

InitUpdate ==
    /\ app \in DrawnLogged
    /\ receiver = <<>>
    /\ tui = tui_new
    /\ socket_out = <<>>
    /\ pc = "call"
    /\ pre = app
    /\ called = <<>>
    /\ io_idle("none")

call_update ==
    /\ pc = "call"
    /\ \E event \in UpdateEvents :
          LET r == update(app, event)
          IN /\ app' = r.app
             /\ receiver' = receiver \o r.sent
             /\ pc' = IF r.panic THEN "panicked" ELSE "returned"
             /\ called' = <<event>>
    /\ UNCHANGED <<tui, socket_out, pre>>
    /\ UNCHANGED io

NextUpdate == call_update

SpecUpdate == InitUpdate /\ [][NextUpdate]_vars

\* one call of replace_logs, as update makes it for a RoomData frame, on an
\* App that holds log entries; the entries of a batch are told apart by
\* their number
chat_batch(n) == [i \in 1..n |-> Log_new("bob", ToString(i))]
mixed_batch(n) ==
    [i \in 1..n |-> IF i % 2 = 1 THEN Log_new_debug(ToString(i))
                                ELSE Log_new("bob", ToString(i))]
ReplaceBatches ==
    {chat_batch(n) : n \in 0..(LOG_LIMIT + MaxExcess)}
        \cup {mixed_batch(n) : n \in {1, 2, 3, LOG_LIMIT + MaxExcess}}

InitReplace ==
    /\ app \in {[after_setup EXCEPT !.logs = l, !.show_debug = sd] :
                    l \in StoredLogs, sd \in BOOLEAN}
    /\ receiver = <<>>
    /\ tui = tui_after_setup
    /\ socket_out = <<>>
    /\ pc = "call"
    /\ pre = app
    /\ called = <<>>
    /\ io_idle("none")

call_replace_batch ==
    /\ pc = "call"
    /\ \E chat_logs \in ReplaceBatches :
          /\ app' = replace_logs(app, chat_logs)
          /\ called' = <<[name |-> "replace_logs", chat_logs |-> chat_logs]>>
    /\ pc' = "returned"
    /\ UNCHANGED <<receiver, tui, socket_out, pre>>
    /\ UNCHANGED io

NextReplace == call_replace_batch

SpecReplace == InitReplace /\ [][NextReplace]_vars

(***************************************************************************)
(* Properties.                                                             *)
(***************************************************************************)
caret_row(a) == a.caret_offset[1]
caret_col(a) == a.caret_offset[2]
line_at_caret(a) == a.buffer[row_index(caret_row(a)) + 1]
returned(cmds) == pc = "returned" /\ called = cmds

IsMoveIntent(e) == e.type = "ServerCommand" /\ e.message_body.body = "Move"
KeyEnter == EvKey(KeyNamed("Enter"))

\* C1: after every step of a sequence of Capture, Del and MoveCaret commands
\* applied to a new App the buffer has at least one line, the caret row is
\* within 1..number of lines and the caret column within 1..length(line)+1,
\* the length of a line being its number of characters.
C1_CaretInBounds ==
    /\ Len(app.buffer) >= 1
    /\ caret_row(app) \in 1..Len(app.buffer)
    /\ caret_col(app) \in 1..(Len(app.buffer[caret_row(app)]) + 1)

\* C2: in every reachable state of the client the staged command is present
\* if and only if the mode is InsertCommand.
C2_StagedIffInsertCommand ==
    is_some(app.staged_command) <=> app.mode = "InsertCommand"

\* C3: the number of log entries visible under the current debug flag never
\* exceeds 100.
C3_VisibleAtMostLimit == log_count(app) <= LOG_LIMIT

joined(buffer) ==
    LET total == Len(buffer)
        at[k \in 0..total] == IF k = 0 THEN <<>> ELSE at[k - 1] \o buffer[k]
    IN at[total]

\* C5: SendBuffer handled with token and outbound channel present sends
\* exactly one Send intent, carrying the current token and username, whose
\* contents are the buffer's lines joined in order; afterwards the buffer is
\* the single empty line and the caret is (1,1).
C5_SendBufferIntent ==
    (returned(<<SendBuffer>>) /\ is_some(pre.token) /\ is_some(pre.command_sink)) =>
        /\ receiver = <<EvSend(unwrap(pre.token), pre.username, joined(pre.buffer))>>
        /\ app.buffer = EmptyBuffer
        /\ app.caret_offset = <<1, 1>>

\* C5 witness: the two-line buffer ["qi", "W"] sent as "qiW"
C5_Witness ==
    /\ returned(<<SendBuffer>>)
    /\ pre.buffer = << <<"q", "i">>, <<"W">> >>
    /\ pre.caret_offset = <<2, 1>>
    /\ receiver = <<EvSend(SessionToken, "user", <<"q", "i", "W">>)>>
    /\ app.buffer = EmptyBuffer

\* C6, as claimed: the Enter key handled in Insert mode (SendBuffer) leaves
\* the mode Navigate.
C6_SendBufferToNavigate ==
    [][(run /\ app.mode = "Insert" /\ Head(receiver) = KeyEnter)
          => app'.mode = "Navigate"]_vars

\* C6, amended: the Enter key in Insert mode maps to SendBuffer, and
\* handling it leaves the mode Insert.
C6_SendBufferStaysInsert ==
    app.mode = "Insert" =>
        /\ map_key(app, KeyNamed("Enter")) = Some(SendBuffer)
        /\ ~update(app, KeyEnter).panic
        /\ update(app, KeyEnter).app.mode = "Insert"
        /\ update(app, KeyEnter).app.buffer = EmptyBuffer

\* C6 witness: "qi" has just been sent and the mode is still Insert
C6_Witness ==
    /\ app.mode = "Insert"
    /\ app.buffer = EmptyBuffer
    /\ receiver = <<EvSend(SessionToken, "user", <<"q", "i">>)>>

\* C7: from Navigate, MoveRooms(None) leads to InsertCommand with
\* MoveRooms(None) staged and sends nothing; SendStagedCommand then sends
\* exactly one Move intent whose target is the buffer text, returns to
\* Navigate, clears the staging and resets buffer and caret; no event sends
\* a Move intent unless MoveRooms(None) is staged.
C7_TwoPhase ==
    /\ app.mode = "Navigate" =>
          LET r == update(app, EvKey(KeyChar("m")))
          IN /\ ~r.panic /\ r.sent = <<>>
             /\ r.app.mode = "InsertCommand"
             /\ r.app.staged_command = Some(MoveRooms(None))
    /\ app.mode = "InsertCommand" =>
          LET r == update(app, KeyEnter)
          IN /\ ~r.panic
             /\ r.sent = <<EvServerCommand(unwrap(app.token), app.username,
                                            Move(joined(app.buffer)))>>
             /\ r.app.mode = "Navigate"
             /\ r.app.staged_command = None
             /\ r.app.buffer = EmptyBuffer
             /\ r.app.caret_offset = <<1, 1>>
    /\ \A e \in EventsButClose \cup {EvServerClose} :
          (\E i \in 1..Len(update(app, e).sent) : IsMoveIntent(update(app, e).sent[i]))
              => /\ app.mode = "InsertCommand"
                 /\ app.staged_command = Some(MoveRooms(None))
                 /\ e = KeyEnter

\* C7 witness: "qi" typed as the parameter and sent as Move{target: "qi"}
C7_Witness ==
    /\ app.mode = "Navigate"
    /\ app.staged_command = None
    /\ app.buffer = EmptyBuffer
    /\ receiver = <<EvServerCommand(SessionToken, "user", Move(<<"q", "i">>))>>

\* C8: in Insert mode every key Char(c) maps to Capture(c), also for the
\* characters bound to commands in Navigate mode, and handling it leaves
\* the mode Insert.
C8_InsertCaptures ==
    /\ \A c \in Chars : get_cmd("Insert", KeyChar(c)) = Some(Capture(c))
    /\ app.mode = "Insert" =>
          \A c \in Chars :
              /\ map_key(app, KeyChar(c)) = Some(Capture(c))
              /\ update(app, EvKey(KeyChar(c))).app.mode = "Insert"
              /\ ~update(app, EvKey(KeyChar(c))).app.should_quit

\* C8 witness: 'q' and 'm' typed in Insert mode are in the buffer
C8_Witness ==
    /\ app.mode = "Insert"
    /\ app.buffer = << <<"q", "m">> >>
    /\ ~app.should_quit

\* C9: should_quit is set by the Quit command and by nothing else, and the
\* dispatcher loop ends only after should_quit is true.
C9_LoopEndsOnlyAfterQuit ==
    /\ \A e \in EventsButClose \cup {EvServerClose} :
          (update(app, e).app.should_quit /\ ~app.should_quit)
              => e.type = "Key" /\ map_key(app, e.code) = Some(Quit)
    /\ pc # "run" => app.should_quit

\* C10: no key of any mode's key map and no inbound frame changes the mode
\* to Disconnected; only ServerClose does.
C10_DisconnectedOnlyByServerClose ==
    /\ \A mode \in Mode, code \in KeyCode :
          get_cmd(mode, code) # Some(Enter("Disconnected"))
    /\ app.mode # "Disconnected" =>
          \A e \in EventsButClose : update(app, e).app.mode # "Disconnected"

\* C10 witness: Disconnected, entered by the ServerClose that left its log entry
C10_Witness ==
    /\ app.mode = "Disconnected"
    /\ app.logs = <<Log_new("SERVER", "Connection closed by server")>>
    /\ receiver = <<>>

\* C11: in Disconnected mode every key other than the Quit binding 'q'
\* leaves the whole client state unchanged and sends nothing, 'q' only sets
\* should_quit, and no event whatever takes the mode out of Disconnected.
C11_DisconnectedFrame ==
    (Len(called) = 1 /\ pre.mode = "Disconnected") =>
        /\ pc = "returned"
        /\ app.mode = "Disconnected"
        /\ called[1].type = "Key" =>
              /\ receiver = <<>>
              /\ app = IF called[1].code = KeyChar("q")
                       THEN [pre EXCEPT !.should_quit = TRUE]
                       ELSE pre

\* C11 witness: 'i' pressed in Disconnected mode over the draft "qi"
C11_Witness ==
    /\ returned(<<EvKey(KeyChar("i"))>>)
    /\ pre.mode = "Disconnected"
    /\ pre.buffer = << <<"q", "i">> >>
    /\ app = pre

\* the ClientMsg run() builds from an outbound intent
outgoing_msg_of(e) ==
    ClientMsg(Some(e.token),
              IF e.type = "Send" THEN SendToRoom(e.contents) ELSE e.message_body)

\* C12: every outbound intent (Send or ServerCommand) the dispatcher is about
\* to pull from the event stream is sent without a fault: the transport
\* holds the session's shared secret, and forwarding the intent queues
\* exactly one binary frame, the message encrypted under that secret.
C12_IntentsEncryptedAndQueued ==
    (pc = "run" /\ receiver # <<>> /\ IsIntent(Head(receiver))) =>
        /\ tui.shared_secret = Some(SessionKey)
        /\ ~forward(tui, Head(receiver)).panic
        /\ forward(tui, Head(receiver)).frames =
              <<[key |-> SessionKey, plain |-> outgoing_msg_of(Head(receiver))]>>

\* C13: an inbound binary frame is decrypted with the session's shared secret
\* before it is deserialized and applied: a chat message that arrives
\* encrypted under the secret is applied as the chat message it carries.
C13_InboundDecrypted ==
    [][(run /\ Head(receiver) = EvRecv(Sealed))
          => \E i \in 1..Len(app'.logs) : app'.logs[i] = Log_new("bob", "hello")]_vars

\* C18: an inbound frame that fails to deserialize puts exactly one entry,
\* non-debug and from CLIENT, in front of the log and changes nothing else
\* (mode, buffer, caret, staged command, token and should_quit are as
\* before); nothing is sent and update returns, so the loop goes on.
C18_UndecodableFrameLogged ==
    (Len(called) = 1 /\ called[1] \in {EvRecv(Garbage), EvRecv(Sealed)}) =>
        /\ pc = "returned"
        /\ receiver = <<>>
        /\ app = [pre EXCEPT !.logs =
                     <<Log_new("CLIENT", "Could not deserialize inbound message")>>
                         \o pre.logs]
        /\ ~app.logs[1].debug
        /\ ~app.should_quit

\* C18 witness: an undecodable frame received in Insert mode over the draft
\* "qi", a chat message being in the log
C18_Witness ==
    /\ returned(<<EvRecv(Garbage)>>)
    /\ pre.mode = "Insert"
    /\ pre.buffer = << <<"q", "i">> >>
    /\ pre.logs = <<Log_new("bob", "hello")>>
    /\ Len(app.logs) = 2
    /\ app.logs[1].from = "CLIENT"

\* C19: a frame with the failure status No(reason) puts a SERVER entry with
\* that reason in front of the log (over the debug record of the frame) and
\* its body is not applied, whatever the body: mode, buffer, caret, staged
\* command, token and should_quit are as before.
C19_FailureStatusNotApplied ==
    (Len(called) = 1
        /\ \E b \in Bodies : called[1] = EvRecv(Encoded(ServerMsg(No("nope"), b)))) =>
        /\ pc = "returned"
        /\ receiver = <<>>
        /\ app = [pre EXCEPT !.logs =
                     <<Log_new("SERVER", "nope"),
                       Log_new_debug("ServerMsg")>> \o pre.logs]

\* C19 witness: No("nope") carrying LoginSuccess{tok2}: the token is kept
C19_Witness ==
    /\ returned(<<EvRecv(Encoded(ServerMsg(No("nope"), LoginSuccess("tok2"))))>>)
    /\ pre.token = Some(SessionToken)
    /\ app.token = Some(SessionToken)
    /\ app.logs[1] = Log_new("SERVER", "nope")

\* C20: no sequence of Capture, Del and MoveCaret commands, whatever the
\* characters, offsets and deltas, ends in a fault of the state machine.
C20_EditNeverFaults == pc # "panicked"

\* C14: when the reply to the login frame (the first thing the server sends)
\* is anything but a success-status LoginSuccess, startup is aborted and the
\* event loop never starts; and the event loop never runs while the token
\* or the shared secret is absent from the client state.
C14_FailedLoginAborts ==
    /\ (hist.arrived # <<>> /\ Head(hist.arrived) # WsBinary(LoginGranted))
          => pc \in {"connect", "aborted"}
    /\ pc \notin {"connect", "aborted"}
          => is_some(app.token) /\ is_some(app.shared_secret)

\* C15: when the transport's inbound side fails or ends the multiplexer
\* does not terminate: it keeps running (and reports the end as ServerClose).
C15_MuxOutlivesTransport == task # "panicked"

\* the key codes of the Key events of a sequence of events, in order
keys_in(events) ==
    LET n == Len(events)
        at[k \in 0..n] ==
            IF k = 0 THEN <<>>
            ELSE IF events[k].type = "Key" THEN Append(at[k - 1], events[k].code)
                 ELSE at[k - 1]
    IN at[n]

\* the Recv and ServerClose events of a sequence of events, in order
inbound_in(events) ==
    LET n == Len(events)
        at[k \in 0..n] ==
            IF k = 0 THEN <<>>
            ELSE IF events[k].type \in {"Recv", "ServerClose"} THEN Append(at[k - 1], events[k])
                 ELSE at[k - 1]
    IN at[n]

\* what the messages of a sequence are to become: one Recv per binary
\* frame, one ServerClose per Close, in order
expected_of(msgs) ==
    LET n == Len(msgs)
        at[k \in 0..n] ==
            IF k = 0 THEN <<>>
            ELSE IF msgs[k].msg = "Binary" THEN Append(at[k - 1], EvRecv(msgs[k].data))
                 ELSE IF msgs[k].msg = "Close" THEN Append(at[k - 1], EvServerClose)
                 ELSE at[k - 1]
    IN at[n]

IsPrefix(s, t) == Len(s) <= Len(t) /\ s = SubSeq(t, 1, Len(s))

\* C16: the events the multiplexer forwarded are taken by the loop once
\* each and in order: the keys taken, then those waiting in the channel,
\* then those not read yet are exactly the keys typed, in order; the Recv
\* and ServerClose events taken and then those waiting are, one per binary
\* frame (and per Close) and in arrival order, the first of those the
\* server sent.
C16_ExactlyOnceInOrder ==
    /\ keys_in(hist.consumed) \o keys_in(receiver) \o reader = hist.typed
    /\ IsPrefix(inbound_in(hist.consumed) \o inbound_in(receiver), expected_of(hist.arrived))
    /\ inbound_in(hist.consumed) \o inbound_in(receiver) \o expected_of(client.in_source)
          \o expected_of(ws_source) = expected_of(hist.arrived)
          \/ client.work = "panicked"

\* C16 witness: 'i' then Enter typed and two frames sent; the loop has taken
\* 'i', a frame, Enter and the other frame, each once
C16_Witness ==
    /\ hist.typed = <<KeyChar("i"), KeyNamed("Enter")>>
    /\ hist.arrived = <<WsBinary(Garbage), WsBinary(LoginGranted)>>
    /\ hist.consumed = <<EvKey(KeyChar("i")), EvRecv(Garbage), EvKey(KeyNamed("Enter")),
                         EvRecv(LoginGranted)>>

\* C17: under fair scheduling a terminal event that is available while the
\* multiplexer runs is eventually forwarded (unless the program has ended).
C17_InputEventuallyForwarded ==
    (task = "running" /\ reader # <<>>) ~> (reader = <<>> \/ pc # "run")

\* C21: AbortStagedCommand handled while the mode is Navigate changes
\* nothing (mode, buffer, caret, staged command, logs and should_quit are as
\* before, also over an unsent draft) and sends nothing, and handling it a
\* second time gives what handling it once gave.
C21_AbortInNavigateNoOp ==
    (returned(<<AbortStagedCommand>>) /\ pre.mode = "Navigate") =>
        /\ app = pre
        /\ receiver = <<>>
        /\ handle(app, AbortStagedCommand) = Ok(app)

\* the lines of buffer b other than line i are those of buffer a
same_but(a, b, i) ==
    /\ Len(a) = Len(b)
    /\ \A j \in 1..Len(a) : j # i => a[j] = b[j]

\* C22: Capture(ch) inserts ch at the caret: with the caret at column k of
\* line L the line becomes the first k-1 characters of L, then ch, then the
\* rest of L from character k; the caret column becomes k+1; the row and
\* all other lines are unchanged.
C22_CaptureInsertsAtCaret ==
    (Len(called) = 1 /\ called[1].name = "Capture") =>
        LET k == caret_col(pre)
            L == line_at_caret(pre)
        IN /\ pc = "returned"
           /\ line_at_caret(app) = SubSeq(L, 1, k - 1) \o <<called[1].c>> \o SubSeq(L, k, Len(L))
           /\ caret_col(app) = k + 1
           /\ caret_row(app) = caret_row(pre)
           /\ same_but(pre.buffer, app.buffer, caret_row(pre))

\* C23: Del(offset) removes exactly one character next to the caret on the
\* current line: for offset < 0 the character before the caret, the caret
\* moving left by one; for offset >= 0 the character at the caret, the caret
\* staying; when there is no such character buffer and caret are unchanged.
\* The other lines are never modified and lines are never joined.
C23_DelRemovesOneCharacter ==
    (Len(called) = 1 /\ called[1].name = "Del") =>
        LET k == caret_col(pre)
            L == line_at_caret(pre)
        IN /\ pc = "returned"
           /\ caret_row(app) = caret_row(pre)
           /\ same_but(pre.buffer, app.buffer, caret_row(pre))
           /\ IF called[1].offset < 0
              THEN IF k >= 2
                   THEN /\ line_at_caret(app) = SubSeq(L, 1, k - 2) \o SubSeq(L, k, Len(L))
                        /\ caret_col(app) = k - 1
                   ELSE /\ line_at_caret(app) = L
                        /\ caret_col(app) = k
              ELSE /\ caret_col(app) = k
                   /\ line_at_caret(app) =
                         IF k <= Len(L)
                         THEN SubSeq(L, 1, k - 1) \o SubSeq(L, k + 1, Len(L))
                         ELSE L

\* C24: MoveCaret(Line, delta) sets the row to row+delta clamped into
\* 1..number of lines and re-clamps the column against the line at the
\* resulting row: the column is the old one clamped into 1..length+1 of
\* that line (the length as String::len gives it); the buffer is unchanged.
C24_LineMoveReclamps ==
    (Len(called) = 1 /\ called[1].name = "MoveCaret" /\ called[1].motion = "Line") =>
        LET r == clamp(caret_row(pre) + called[1].amount, 1, Len(pre.buffer))
        IN /\ pc = "returned"
           /\ app.buffer = pre.buffer
           /\ caret_row(app) = r
           /\ caret_col(app) = clamp(caret_col(pre), 1, len(pre.buffer[r]) + 1)

\* C25: MoveCaret(Character, delta) leaves the row and the buffer unchanged
\* and sets the column to max(col+delta, 0) clamped into 1..length+1 of the
\* current line, the length being the line's number of characters; it never
\* moves the caret to another line.
C25_CharacterMoveClamped ==
    (Len(called) = 1 /\ called[1].name = "MoveCaret" /\ called[1].motion = "Character") =>
        /\ pc # "panicked"
        /\ app.buffer = pre.buffer
        /\ caret_row(app) = caret_row(pre)
        /\ caret_col(app) = clamp(max0(caret_col(pre) + called[1].amount), 1,
                                  Len(line_at_caret(pre)) + 1)

\* C26: Esc in InsertCommand mode maps to AbortStagedCommand, and handling
\* AbortStagedCommand in InsertCommand mode moves to Navigate, clears the
\* staged command, resets the buffer to the single empty line and the caret
\* to (1,1), changes nothing else and sends no intent, whatever was typed.
C26_AbortStagedCommand ==
    /\ get_cmd("InsertCommand", KeyNamed("Esc")) = Some(AbortStagedCommand)
    /\ (called = <<AbortStagedCommand>> /\ pre.mode = "InsertCommand") =>
          /\ pc = "returned"
          /\ receiver = <<>>
          /\ app = [pre EXCEPT !.mode = "Navigate", !.staged_command = None,
                               !.buffer = EmptyBuffer, !.caret_offset = <<1, 1>>]

\* C26 witness: the parameter "qi" typed after MoveRooms(None) and aborted
\* with token and channel present
C26_Witness ==
    /\ returned(<<AbortStagedCommand>>)
    /\ pre.mode = "InsertCommand"
    /\ pre.staged_command = Some(MoveRooms(None))
    /\ pre.buffer = << <<"q", "i">> >>
    /\ pre.caret_offset = <<1, 3>>
    /\ is_some(pre.token) /\ is_some(pre.command_sink)
    /\ app.mode = "Navigate"
    /\ app.buffer = EmptyBuffer
    /\ receiver = <<>>

\* the edges of the mode graph a key event may follow, with the commands
\* that label them
ModeEdges ==
    {<<"Navigate", Enter("Insert"), "Insert">>,
     <<"Insert", Enter("Navigate"), "Navigate">>,
     <<"Navigate", MoveRooms(None), "InsertCommand">>,
     <<"InsertCommand", SendStagedCommand, "Navigate">>,
     <<"InsertCommand", AbortStagedCommand, "Navigate">>}

\* C27: a key event that changes the mode follows one of the edges
\* Navigate->Insert (Enter(Insert)), Insert->Navigate, Navigate->InsertCommand
\* (MoveRooms(None)), InsertCommand->Navigate (SendStagedCommand or
\* AbortStagedCommand), so none leads from Insert to InsertCommand or back;
\* and Enter(Insert) from Navigate leaves the buffer's content unchanged.
C27_ModeEdges ==
    (Len(called) = 1 /\ called[1].type = "Key") =>
        /\ app.mode # pre.mode =>
              \E edge \in ModeEdges :
                  /\ pre.mode = edge[1]
                  /\ map_key(pre, called[1].code) = Some(edge[2])
                  /\ app.mode = edge[3]
        /\ (pre.mode = "Navigate" /\ called[1].code = KeyChar("i")) =>
              /\ pc = "returned"
              /\ app.mode = "Insert"
              /\ app.buffer = pre.buffer

\* C27 witness: 'i' pressed in Navigate mode over the draft "qi"
C27_Witness ==
    /\ returned(<<EvKey(KeyChar("i"))>>)
    /\ pre.mode = "Navigate"
    /\ pre.buffer = << <<"q", "i">> >>
    /\ app.mode = "Insert"
    /\ app.buffer = << <<"q", "i">> >>

\* C28: a ServerClose event handled in any mode sets the mode to
\* Disconnected and puts one entry, non-debug and from SERVER, in front of
\* the log (the stored entries follow it, at most the oldest one evicted);
\* buffer, caret, token, should_quit and every other field are unchanged
\* and nothing is sent.
C28_ServerCloseDisconnects ==
    called = <<EvServerClose>> =>
        /\ pc = "returned"
        /\ receiver = <<>>
        /\ app.mode = "Disconnected"
        /\ app.logs # <<>>
        /\ app.logs[1] = Log_new("SERVER", "Connection closed by server")
        /\ IsPrefix(Tail(app.logs), pre.logs)
        /\ Len(app.logs) >= Len(pre.logs)
        /\ [app EXCEPT !.mode = pre.mode, !.logs = pre.logs] = pre

\* C28 witness: ServerClose handled in Insert mode over the draft "qi", a
\* chat message being in the log
C28_Witness ==
    /\ returned(<<EvServerClose>>)
    /\ pre.mode = "Insert"
    /\ pre.buffer = << <<"q", "i">> >>
    /\ pre.caret_offset = <<1, 2>>
    /\ pre.logs = <<Log_new("bob", "hello")>>
    /\ app.mode = "Disconnected"
    /\ app.buffer = pre.buffer
    /\ app.caret_offset = <<1, 2>>
    /\ Len(app.logs) = 2

\* the entries of a log store that are renderable under a debug flag, in order
visible(logs, show_debug) ==
    LET shown(l) == should_render(l, show_debug)
    IN SelectSeq(logs, shown)

\* C29: push_log places the new entry at the front and, performed when 100
\* visible entries are stored, leaves exactly the 100 most recent visible
\* entries (the new one and the 99 most recent of those stored), also when
\* hidden debug entries are interleaved in the store.
C29_PushLogKeepsMostRecent ==
    LET log == Log_new("alice", "new")
        pushed == push_log(app, log)
    IN /\ pushed.logs[1] = log
       /\ log_count(app) = LOG_LIMIT =>
             visible(pushed.logs, app.show_debug) =
                <<log>> \o SubSeq(visible(app.logs, app.show_debug), 1, LOG_LIMIT - 1)

\* a sequence in reverse order
reversed(s) == [i \in 1..Len(s) |-> s[Len(s) + 1 - i]]
\* the last n elements of a sequence, all of it when it has fewer
last_of(s, n) == SubSeq(s, (IF Len(s) > n THEN Len(s) - n ELSE 0) + 1, Len(s))

\* C30: replace_logs(batch) discards every entry stored before, debug
\* entries included, and re-inserts the batch: afterwards the ring holds
\* only entries of the batch, the last element of the batch at the front,
\* and for a batch of n non-debug entries exactly the last min(n, 100) of
\* them, most recent first; nothing else of the App changes.
C30_ReplaceLogs ==
    (Len(called) = 1 /\ called[1].name = "replace_logs") =>
        LET batch == called[1].chat_logs
        IN /\ pc = "returned"
           /\ \A i \in 1..Len(app.logs) : \E j \in 1..Len(batch) : app.logs[i] = batch[j]
           /\ IF batch = <<>>
              THEN app.logs = <<>>
              ELSE app.logs[1] = batch[Len(batch)]
           /\ (\A j \in 1..Len(batch) : ~batch[j].debug) =>
                 app.logs = reversed(last_of(batch, LOG_LIMIT))
           /\ [app EXCEPT !.logs = pre.logs] = pre

\* C30 witness: a batch of 101 chat entries replaces a debug record and a
\* chat message; entries 101 down to 2 are held
C30_Witness ==
    /\ pc = "returned"
    /\ Len(called) = 1
    /\ called[1].name = "replace_logs"
    /\ called[1].chat_logs = chat_batch(LOG_LIMIT + 1)
    /\ pre.logs = <<Log_new_debug("ServerMsg"), Log_new("bob", "hello")>>
    /\ Len(app.logs) = LOG_LIMIT
    /\ app.logs[1] = Log_new("bob", ToString(LOG_LIMIT + 1))
    /\ app.logs[LOG_LIMIT] = Log_new("bob", "2")

\* the positions of a binding list whose binding matches a key
matching(binds, code) == {i \in 1..Len(binds) : is_some(check(binds[i], code))}
least(S) == CHOOSE i \in S : \A j \in S : i <= j

\* key dispatch takes the first matching binding of the mode's list: the key
\* event just handled had the effect of that binding's command, and no
\* effect at all when no binding matched
dispatched_first_match ==
    (Len(called) = 1 /\ called[1].type = "Key") =>
        LET binds == keys(pre.mode)
            code == called[1].code
            hits == matching(binds, code)
        IN IF hits = {}
           THEN app = pre /\ receiver = <<>> /\ pc = "returned"
           ELSE LET r == handle(pre, unwrap(check(binds[least(hits)], code)))
                IN /\ app = r.app
                   /\ receiver = r.sent
                   /\ pc = IF r.panic THEN "panicked" ELSE "returned"

\* no exact-key binding of any mode comes after a catch-all that matches its key
none_shadowed ==
    \A mode \in Mode :
        \A j \in 1..Len(keys(mode)) : \A i \in 1..(j - 1) :
            (keys(mode)[j].bind = "Explicit" /\ keys(mode)[i].bind = "Logical")
                => ~is_some(check(keys(mode)[i], keys(mode)[j].code))

\* C31, as claimed: key dispatch returns the command of the first binding
\* that matches, none when nothing matches; in every mode's list all
\* exact-key bindings precede the catch-all capture binding, so that none is
\* shadowed by it.
C31_ExactBindingsFirst ==
    /\ dispatched_first_match
    /\ \A mode \in Mode :
          \A i, j \in 1..Len(keys(mode)) :
              (keys(mode)[i].bind = "Logical" /\ keys(mode)[j].bind = "Explicit") => j < i
    /\ none_shadowed

\* C31, amended: key dispatch returns the command of the first binding that
\* matches, none when nothing matches; in every mode's list the exact-key
\* bindings of character keys precede the catch-all capture binding, the
\* exact-key bindings that follow it (Backspace, Delete) are of keys the
\* catch-all does not match, and so no exact-key binding is shadowed.
C31_NoBindingShadowed ==
    /\ dispatched_first_match
    /\ \A mode \in Mode :
          \A i, j \in 1..Len(keys(mode)) :
              (keys(mode)[i].bind = "Logical" /\ keys(mode)[j].bind = "Explicit"
                  /\ keys(mode)[j].code.key = "Char") => j < i
    /\ none_shadowed

\* C31 witness: Backspace, bound after the catch-all, pressed in Insert mode
\* at the end of "qi" has deleted the 'i'
C31_Witness ==
    /\ returned(<<EvKey(KeyNamed("Backspace"))>>)
    /\ pre.mode = "Insert"
    /\ pre.buffer = << <<"q", "i">> >>
    /\ pre.caret_offset = <<1, 3>>
    /\ app.buffer = << <<"q">> >>

\* the commands that send an intent, and an App given a token and a channel
SendingCommands == {SendBuffer, GetServerTime, SendStagedCommand}
with_session(a) ==
    [a EXCEPT !.token = Some(SessionToken), !.command_sink = Some("sender")]

\* C32: SendBuffer, GetServerTime or SendStagedCommand handled while the
\* token or the outbound channel is absent sends no intent and adds no log
\* entry, and the rest of the transition (buffer and caret reset, staging
\* cleared, mode change) is exactly that of the same command handled with
\* token and channel present, where the intent is sent.
C32_SilentDropWithoutSession ==
    /\ (Len(called) = 1 /\ called[1] \in SendingCommands
           /\ ~(is_some(pre.token) /\ is_some(pre.command_sink))) =>
          LET sent_ok == handle(with_session(pre), called[1])
          IN /\ pc = "returned"
             /\ receiver = <<>>
             /\ app.logs = pre.logs
             /\ ~sent_ok.panic
             /\ app = [sent_ok.app EXCEPT !.token = pre.token,
                                          !.command_sink = pre.command_sink]
             /\ (called[1] # SendStagedCommand \/ is_some(pre.staged_command))
                   => Len(sent_ok.sent) = 1
             /\ called[1] = SendBuffer =>
                   app.buffer = EmptyBuffer /\ app.caret_offset = <<1, 1>>
    /\ (pc = "call" /\ called = <<>>) =>
          \A cmd \in SendingCommands :
              /\ handle([app EXCEPT !.token = None], cmd).sent = <<>>
              /\ handle([app EXCEPT !.command_sink = None], cmd).sent = <<>>

\* C32 witness: the draft "qi" sent with no token: nothing is emitted and
\* the buffer is reset
C32_Witness ==
    /\ returned(<<SendBuffer>>)
    /\ pre.token = None
    /\ pre.mode = "Insert"
    /\ pre.buffer = << <<"q", "i">> >>
    /\ app.buffer = EmptyBuffer
    /\ app.caret_offset = <<1, 1>>
    /\ receiver = <<>>
    /\ app.logs = <<>>

\* C33: when the dispatcher loop has exited, no Send or ServerCommand intent
\* is left unprocessed in the event channel, whatever keys were queued
\* behind the key that produced the intent.
C33_NoIntentLeftAtExit ==
    pc = "exited" => \A i \in 1..Len(receiver) : ~IsIntent(receiver[i])

\* C34: once the server's Close has been handled (the mode is Disconnected)
\* and the inbound stream has ended, a 'q' key pressed while the loop runs
\* is delivered to the state machine and sets should_quit.
C34_QuitAfterServerClose ==
    (/\ pc = "run"
     /\ app.mode = "Disconnected"
     /\ client.work = "ended"
     /\ \A i \in 1..Len(receiver) : ~IsIntent(receiver[i])
     /\ reader # <<>>
     /\ \A i \in 1..Len(reader) : i = 1 => reader[i] = KeyChar("q"))
        ~> app.should_quit

\* the intents the state machine emits while the dispatcher hands it the
\* events of a sequence, from App a0 on, in order of emission
emitted_by(a0, events) ==
    LET n == Len(events)
        at[k \in 0..n] ==
            IF k = 0 THEN [app |-> a0, sent |-> <<>>, dead |-> FALSE]
            ELSE LET before == at[k - 1]
                     u == update(before.app, events[k])
                 IN IF before.dead \/ u.panic
                    THEN [before EXCEPT !.dead = TRUE]
                    ELSE [app |-> u.app, sent |-> before.sent \o u.sent, dead |-> FALSE]
    IN at[n].sent

\* the frames of a sequence of events: one per Send or ServerCommand intent
frames_of(events) ==
    LET n == Len(events)
        at[k \in 0..n] ==
            IF k = 0 THEN <<>>
            ELSE IF IsIntent(events[k])
                 THEN at[k - 1] \o forward(tui_with_key, events[k]).frames
                 ELSE at[k - 1]
    IN at[n]

is_prefix(s, t) == Len(s) <= Len(t) /\ s = SubSeq(t, 1, Len(s))

\* the token of a frame (the login frame is sent as it is, the others sealed)
frame_token(f) == IF "plain" \in DOMAIN f THEN f.plain.token ELSE f.token

C36_InsertCommandStartsEmpty ==
    [][(app.mode # "InsertCommand" /\ app'.mode = "InsertCommand") =>
          (app'.buffer = EmptyBuffer /\ app'.caret_offset = <<1, 1>>)]_vars

\* C37: handling a Recv event, whatever the frame holds, returns, sends
\* nothing and changes only the stored logs and possibly the token: mode,
\* buffer, caret, staged command, show_debug and should_quit (and every other
\* field) are as before, and a token that was present is still present.
C37_RecvTouchesLogsAndToken ==
    (Len(called) = 1 /\ called[1].type = "Recv") =>
        /\ pc = "returned"
        /\ receiver = <<>>
        /\ app = [pre EXCEPT !.logs = app.logs, !.token = app.token]
        /\ is_some(pre.token) => is_some(app.token)

\* C37 witness: a LoginSuccess frame received in Disconnected mode over a
\* draft replaces the token and leaves mode and draft alone
C37_Witness ==
    /\ called = <<EvRecv(Encoded(ServerMsg(Yes, LoginSuccess("tok2"))))>>
    /\ pc = "returned"
    /\ pre.mode = "Disconnected"
    /\ pre.buffer = << <<"q">> >>
    /\ pre.token = Some(SessionToken)
    /\ app.token = Some("tok2")
    /\ app.mode = "Disconnected"
    /\ app.buffer = pre.buffer

\* C38: in every state reached from the state after setup through key
\* events, ServerClose events and inbound frames the buffer has exactly one
\* line and the caret row is 1.
C38_SingleLineBuffer ==
    /\ Len(app.buffer) = 1
    /\ app.caret_offset[1] = 1

\* C38 witness: in Insert mode, after a frame was logged, "qi" typed and the
\* caret moved back between the two characters
C38_Witness ==
    /\ app.mode = "Insert"
    /\ app.buffer = << <<"q", "i">> >>
    /\ app.caret_offset = <<1, 2>>
    /\ app.logs # <<>>
    /\ receiver = <<>>

====
